---- MODULE Spec2Model ----
(***************************************************************************)
(* Offline cache of io-spectre/sugarshock: the service worker              *)
(* (src/service-worker.js) that mirrors the asset manifest into the Cache  *)
(* API ("Blob Cache") and an IndexedDB object store ("index"), and that    *)
(* answers fetch events from the cache or from the network.                *)
(*                                                                         *)
(* Execution model: one JavaScript event loop.  Every action below is one  *)
(* turn of it: the completion (success or error) of one awaited store or   *)
(* network operation, followed by the synchronous code and the promise     *)
(* reactions that run up to the next await.  An operation takes effect on  *)
(* the store at the moment it completes.                                   *)
(***************************************************************************)
EXTENDS Integers, FiniteSets, Sequences, TLC

\* ---------------------------------------------------------------- bounds
\* refreshCache invocations in one behaviour
MaxCycles == 2
\* fetch events dispatched in one behaviour
MaxRequests == 2
\* store and network operations that end in an error in one behaviour
MaxFaults == 2

\* ------------------------------------------------------------- constants
\* null / undefined: no promise, no record, no manifest
NULL == 0
IDB_KEY_OFFLINE_INDEX == "offline-index.txt"
ROOT == "./"
INDEX_HTML == "./index.html"
ASSET == "./a"
\* asset paths, as the manifest parser normalises them ("./" prefix)
Paths == {ROOT, INDEX_HTML, ASSET}
\* keys of the object store 'asset': the asset paths and the sentinel
Keys == Paths \cup {IDB_KEY_OFFLINE_INDEX}
\* request paths the fetch listener treats as the navigation entry point:
\* ['', 'index.html'].includes(requestPath.slice(scopePath.length))
EntryPoints == {ROOT, INDEX_HTML}
\* the paths fetch events are dispatched for: an entry point and another
RequestPaths == {INDEX_HTML, ASSET}

\* The manifests the server may serve, by manifest digest (SHA-256 of the
\* payload, taken to be collision free: the id stands for the digest and for
\* the Last-Modified header that comes with that payload).
ManifestIds == {1, 2, 3}
\* The lines of manifest m, as parseAssetIndexEntry returns them: the
\* document, the document with another digest, and one asset without the
\* document (so that a refresh finds entries changed, added and removed).
ManifestLines(m) ==
    CASE m = 1 -> {[path |-> INDEX_HTML, hash |-> 1]}
      [] m = 2 -> {[path |-> INDEX_HTML, hash |-> 2]}
      [] m = 3 -> {[path |-> ASSET, hash |-> 1]}
      [] OTHER -> {}

\* fetchAssetIndex's entries: the parsed lines, plus the synthetic entry for
\* the scope root that shares index.html's digest.
Entries(m) ==
    ManifestLines(m) \cup
    {[path |-> ROOT, hash |-> e.hash] : e \in {x \in ManifestLines(m) : x.path = INDEX_HTML}}

\* knownPaths = new Set(assetIndex.entries.map(entry => entry.path))
KnownPaths(m) == {e.path : e \in Entries(m)}

\* the digest manifest m declares for path p (NULL when it has no entry)
EntryHash(m, p) ==
    IF p \in KnownPaths(m) THEN (CHOOSE e \in Entries(m) : e.path = p).hash ELSE NULL

\* What one call of fetchAssetIndex may return: null (the fetch failed, the
\* response was not ok, 304 included) or the manifest the server serves now.
FetchAssetIndexResults == {NULL} \cup ManifestIds

\* ----------------------------------------------------------------- state
VARIABLES
    refreshCachePromise,  \* NULL, or the id of the cycle whose promise it holds
    ncycles,              \* refreshCache invocations so far
    cyc,                  \* cycle id -> the state of that refreshCache call
    idb,                  \* the index: key -> recorded hash (NULL: no record)
    cache,                \* the Blob Cache: the paths it holds a body for
    req,                  \* slot -> the state of one fetch handler
    activated,            \* the activate event has been dispatched
    waitUntil,            \* the cycle whose promise the activate event waits for
    faults,               \* operations that ended in an error so far
    parse,                \* one call of parseAssetIndexEntry: its line, its result
    mgr                   \* the page's service worker manager (initServiceWorkerManager)

\* the state of the service worker
worker == <<refreshCachePromise, ncycles, cyc, idb, cache, req, activated, waitUntil, faults>>
\* the state that the steps of the service worker leave alone
others == <<parse, mgr>>
vars == <<refreshCachePromise, ncycles, cyc, idb, cache, req, activated, waitUntil, faults,
          parse, mgr>>

Cycles == 1..MaxCycles
Requests == 1..MaxRequests

EmptyIdb == [k \in Keys |-> NULL]
EmptyCache == {}
NoTasks == [k \in Keys |-> "-"]

\* the stores in the state a cycle against manifest m converges to
ConvergedIdb(m) ==
    [k \in Keys |-> IF k = IDB_KEY_OFFLINE_INDEX THEN m ELSE EntryHash(m, k)]
ConvergedCache(m) == KnownPaths(m)

\* the stages of refreshCache in which per-key tasks run under Promise.all
TaskStages == {"prune", "update", "obsolete", "evict"}
\* a refreshCache call that has not settled
Unsettled == {"inputs", "keys", "prune", "update", "obsolete", "cachekeys", "evict", "sentinel", "hung"}

IdleCycle ==
    [pc |-> "idle", assetIndex |-> NULL, db |-> FALSE, known |-> {},
     task |-> NoTasks, fetched |-> {}, idb0 |-> EmptyIdb, cache0 |-> EmptyCache]

\* a refreshCache call that has settled with no task left behind: only its
\* outcome is kept
Settled(outcome, db) == [IdleCycle EXCEPT !.pc = outcome, !.db = db]

\* A fetch handler: where it is suspended or how it answered ("bypass": the
\* fetch of line 24, "fresh": the fetch of line 42, "cache" and "fallback":
\* the cached body and the fetch of line 48), the request path, its index
\* handle ("none", "open", or "dropped": still open with no owner left), the
\* sentinel hash it read (cachedIndex?.hash), the manifest it fetched
\* (assetIndex), whether the catch block of line 32 ran, and the refresh
\* promise that synchronizedRefreshCache returned to it.  An answered
\* request keeps only its answer and that promise.
IdleRequest ==
    [pc |-> "idle", path |-> INDEX_HTML, db |-> "none", cachedIndex |-> NULL,
     assetIndex |-> NULL, error |-> FALSE, joined |-> NULL]

\* no line is being parsed
NoParse == [stage |-> "none", digest |-> <<>>, path |-> <<>>, line |-> <<>>,
            entry |-> [hash |-> <<>>, path |-> <<>>]]

\* a page on which initServiceWorkerManager has not run
NoManager ==
    [offlineMode |-> FALSE, registration |-> FALSE, pending |-> 0, registered |-> FALSE,
     stores |-> FALSE, cacheDelete |-> "none", dbDelete |-> "none", toggles |-> 0]

\* The persistent stores when the worker starts: never used, converged for
\* manifest 1, or converged for manifest 1 with a body since evicted by the
\* platform.
InitStores ==
    {<<EmptyIdb, EmptyCache>>}
    \cup {<<ConvergedIdb(1), ConvergedCache(1) \ gone>> : gone \in {{}, {ROOT}}}

Init ==
    /\ refreshCachePromise = NULL
    /\ ncycles = 0
    /\ cyc = [c \in Cycles |-> IdleCycle]
    /\ \E s \in InitStores : idb = s[1] /\ cache = s[2]
    /\ req = [r \in Requests |-> IdleRequest]
    /\ activated = FALSE
    /\ waitUntil = NULL
    /\ faults = 0
    /\ parse = NoParse
    /\ mgr = NoManager

\* an awaited operation succeeds / ends in an error
Succeeds == UNCHANGED faults
Fails == faults < MaxFaults /\ faults' = faults + 1

\* ------------------------------------------- Synchronization Coordinator

\* the refreshCache call that synchronizedRefreshCache starts: it runs up to
\* its first await, with the three inputs of Promise.all requested
NewCycle(cachedAssetIndex, offlineAssetIndexDB) ==
    [IdleCycle EXCEPT !.pc = "inputs", !.assetIndex = cachedAssetIndex,
                      !.db = offlineAssetIndexDB, !.idb0 = idb, !.cache0 = cache]

\* synchronizedRefreshCache without its test of refreshCachePromise
synchronizedRefreshCacheUnguarded(cachedAssetIndex, offlineAssetIndexDB) ==
    /\ ncycles < MaxCycles
    /\ ncycles' = ncycles + 1
    /\ cyc' = [cyc EXCEPT ![ncycles + 1] = NewCycle(cachedAssetIndex, offlineAssetIndexDB)]
    /\ refreshCachePromise' = ncycles + 1

\* synchronizedRefreshCache: start a cycle unless one is outstanding; the
\* caller gets refreshCachePromise' either way
synchronizedRefreshCache(cachedAssetIndex, offlineAssetIndexDB) ==
    IF refreshCachePromise = NULL
    THEN /\ ncycles < MaxCycles
         /\ ncycles' = ncycles + 1
         /\ cyc' = [cyc EXCEPT ![ncycles + 1] = NewCycle(cachedAssetIndex, offlineAssetIndexDB)]
         /\ refreshCachePromise' = ncycles + 1
    ELSE UNCHANGED <<ncycles, cyc, refreshCachePromise>>

\* the activate listener: event.waitUntil(synchronizedRefreshCache())
Activate ==
    /\ ~activated
    /\ activated' = TRUE
    /\ synchronizedRefreshCache(NULL, FALSE)
    /\ waitUntil' = refreshCachePromise'
    /\ UNCHANGED <<idb, cache, req, faults>>

    /\ UNCHANGED others
\* step 5 of refreshCache: delete the known keys that the manifest lacks
EnterObsolete(cr) ==
    LET gone == cr.known \ KnownPaths(cr.assetIndex) IN
    IF gone = {}
    THEN [cr EXCEPT !.pc = "cachekeys", !.task = NoTasks]
    ELSE [cr EXCEPT !.pc = "obsolete",
                    !.task = [k \in Keys |-> IF k \in gone THEN "odel" ELSE "-"]]

\* step 4: one updateOfflineAsset per manifest entry, each at its idbGet
EnterUpdate(cr) ==
    IF KnownPaths(cr.assetIndex) = {}
    THEN EnterObsolete(cr)
    ELSE [cr EXCEPT !.pc = "update",
                    !.task = [k \in Keys |-> IF k \in KnownPaths(cr.assetIndex) THEN "get" ELSE "-"]]

\* step 3: one task per previously known key, each at its cache.match
EnterPrune(cr) ==
    IF cr.known = {}
    THEN EnterUpdate(cr)
    ELSE [cr EXCEPT !.pc = "prune",
                    !.task = [k \in Keys |-> IF k \in cr.known THEN "match" ELSE "-"]]

\* Promise.all resolves once every task of the stage has resolved, and
\* refreshCache runs on to its next await.  Of a cycle that has failed, the
\* tasks left behind run on; once the last of them has ended only the
\* cycle's outcome is kept.
Continue(cr) ==
    IF cr.pc \in TaskStages /\ \A k \in Keys : cr.task[k] \in {"-", "ok"}
    THEN CASE cr.pc = "prune" -> EnterUpdate(cr)
           [] cr.pc = "update" -> EnterObsolete(cr)
           [] cr.pc = "obsolete" -> [cr EXCEPT !.pc = "cachekeys", !.task = NoTasks]
           [] cr.pc = "evict" -> [cr EXCEPT !.pc = "sentinel", !.task = NoTasks]
    ELSE IF cr.pc = "failed" /\ \A k \in Keys : cr.task[k] \in {"-", "ok", "err"}
    THEN Settled("failed", cr.db)
    ELSE cr

\* task k of cycle c resolves, leaving the store variables to the caller
TaskDone(c, k, next) ==
    /\ cyc' = [cyc EXCEPT ![c] = Continue([cyc[c] EXCEPT !.task[k] = next])]
    /\ UNCHANGED refreshCachePromise

\* Task k of cycle c rejects.  Promise.all rejects at once, refreshCache
\* rejects and .finally clears the marker; the other tasks of the stage
\* are not cancelled.  When the cycle has already failed, nothing awaits it.
TaskError(c, k) ==
    /\ Fails
    /\ cyc' = [cyc EXCEPT ![c] = Continue([@ EXCEPT
                          !.task[k] = "err",
                          !.pc = IF @ \in TaskStages THEN "failed" ELSE @,
                          !.known = {}, !.idb0 = EmptyIdb, !.cache0 = EmptyCache])]
    /\ refreshCachePromise' = IF cyc[c].pc \in TaskStages THEN NULL ELSE refreshCachePromise

\* lines 72-74 without the return: a cycle that goes on with no manifest
AbortsCycleNever(assetIndex) == FALSE

\* lines 72-74: refreshCache returns when it has no manifest
AbortsCycle(assetIndex) == assetIndex = NULL

\* refreshCache, lines 67-74: the manifest (fetched unless supplied), the
\* cache and the index handle (opened unless supplied) arrive
RefreshInputs(c) ==
    /\ cyc[c].pc = "inputs"
    /\ \E m \in (IF cyc[c].assetIndex # NULL THEN {cyc[c].assetIndex} ELSE FetchAssetIndexResults) :
         \/ /\ Succeeds
            /\ IF AbortsCycle(m)
               THEN /\ cyc' = [cyc EXCEPT ![c] = Settled("aborted", TRUE)]
                    /\ refreshCachePromise' = NULL
               ELSE /\ cyc' = [cyc EXCEPT ![c].pc = "keys", ![c].assetIndex = m, ![c].db = TRUE]
                    /\ UNCHANGED refreshCachePromise
         \/ /\ Fails                     \* caches.open rejects
            /\ cyc' = [cyc EXCEPT ![c] = Settled("failed", TRUE)]
            /\ refreshCachePromise' = NULL
         \/ /\ Fails                     \* initOfflineAssetIndex rejects
            /\ ~cyc[c].db
            /\ cyc' = [cyc EXCEPT ![c] = Settled("failed", FALSE)]
            /\ refreshCachePromise' = NULL
    /\ UNCHANGED <<ncycles, idb, cache, req, activated, waitUntil>>

    /\ UNCHANGED others
\* lines 76-99: getAllKeys answers.  On its error the listener evaluates
\* event.source.clear(): the error event of an IDBRequest is a plain Event,
\* which has no source (the store is event.target.source), so the listener
\* throws, neither resolve nor the undeclared reject is reached, and the
\* promise refreshCache awaits never settles.
RefreshKeys(c) ==
    /\ cyc[c].pc = "keys"
    /\ \/ /\ Succeeds
          /\ cyc' = [cyc EXCEPT ![c] = EnterPrune([@ EXCEPT !.known = {k \in Keys : idb[k] # NULL}])]
       \/ /\ Fails
          /\ cyc' = [cyc EXCEPT ![c].pc = "hung"]
    /\ UNCHANGED <<refreshCachePromise, ncycles, idb, cache, req, activated, waitUntil>>

    /\ UNCHANGED others
\* does the cache hold a body for index key k (cache.match(new URL(k, scope)))
HasBody(k) == k \in cache

\* lines 101-102: cache.match of a previously known key answers
PruneMatch(c, k) ==
    /\ cyc[c].task[k] = "match"
    /\ \/ /\ Succeeds
          /\ TaskDone(c, k, IF HasBody(k) THEN "ok" ELSE "pdel")
       \/ TaskError(c, k)
    /\ UNCHANGED <<ncycles, idb, cache, req, activated, waitUntil>>

    /\ UNCHANGED others
\* lines 103-107: idbDelete of a record without a body answers; its error is
\* caught and logged
PruneDelete(c, k) ==
    /\ cyc[c].task[k] = "pdel"
    /\ \/ /\ Succeeds
          /\ idb' = [idb EXCEPT ![k] = NULL]
       \/ /\ Fails
          /\ UNCHANGED idb
    /\ TaskDone(c, k, "ok")
    /\ UNCHANGED <<ncycles, cache, req, activated, waitUntil>>

    /\ UNCHANGED others
\* updateOfflineAsset, lines 155-158: idbGet answers; equal hashes return,
\* otherwise cache.add(entry.path) is called
UpdateGet(c, k) ==
    /\ cyc[c].task[k] = "get"
    /\ \/ /\ Succeeds
          /\ IF idb[k] = EntryHash(cyc[c].assetIndex, k)
             THEN TaskDone(c, k, "ok")
             ELSE /\ cyc' = [cyc EXCEPT ![c].task[k] = "add", ![c].fetched = @ \cup {k}]
                  /\ UNCHANGED refreshCachePromise
       \/ TaskError(c, k)
    /\ UNCHANGED <<ncycles, idb, cache, req, activated, waitUntil>>

    /\ UNCHANGED others
\* line 160: cache.add answers; the fetched body replaces the cached one
UpdateAdd(c, k) ==
    /\ cyc[c].task[k] = "add"
    /\ \/ /\ Succeeds
          /\ cache' = cache \cup {k}
          /\ TaskDone(c, k, "put")
       \/ /\ TaskError(c, k)
          /\ UNCHANGED cache
    /\ UNCHANGED <<ncycles, idb, req, activated, waitUntil>>

    /\ UNCHANGED others
\* line 162: idbPut of the entry answers
UpdatePut(c, k) ==
    /\ cyc[c].task[k] = "put"
    /\ \/ /\ Succeeds
          /\ idb' = [idb EXCEPT ![k] = EntryHash(cyc[c].assetIndex, k)]
          /\ TaskDone(c, k, "ok")
       \/ /\ TaskError(c, k)
          /\ UNCHANGED idb
    /\ UNCHANGED <<ncycles, cache, req, activated, waitUntil>>

    /\ UNCHANGED others
\* lines 119-129: idbDelete of a known key absent from the manifest answers;
\* its error is caught and logged
ObsoleteDelete(c, k) ==
    /\ cyc[c].task[k] = "odel"
    /\ \/ /\ Succeeds
          /\ idb' = [idb EXCEPT ![k] = NULL]
       \/ /\ Fails
          /\ UNCHANGED idb
    /\ TaskDone(c, k, "ok")
    /\ UNCHANGED <<ncycles, cache, req, activated, waitUntil>>

    /\ UNCHANGED others
\* lines 130-137: cache.keys answers; one cache.delete is requested per
\* cached path that the manifest lacks
RefreshCacheKeys(c) ==
    /\ cyc[c].pc = "cachekeys"
    /\ \/ /\ Succeeds
          /\ LET gone == cache \ KnownPaths(cyc[c].assetIndex) IN
             cyc' = [cyc EXCEPT ![c] =
                        IF gone = {}
                        THEN [@ EXCEPT !.pc = "sentinel"]
                        ELSE [@ EXCEPT !.pc = "evict",
                                       !.task = [k \in Keys |-> IF k \in gone THEN "cdel" ELSE "-"]]]
          /\ UNCHANGED refreshCachePromise
       \/ /\ Fails
          /\ cyc' = [cyc EXCEPT ![c] = Settled("failed", TRUE)]
          /\ refreshCachePromise' = NULL
    /\ UNCHANGED <<ncycles, idb, cache, req, activated, waitUntil>>

    /\ UNCHANGED others
\* line 135: cache.delete answers
EvictDelete(c, k) ==
    /\ cyc[c].task[k] = "cdel"
    /\ \/ /\ Succeeds
          /\ cache' = cache \ {k}
          /\ TaskDone(c, k, "ok")
       \/ /\ TaskError(c, k)
          /\ UNCHANGED cache
    /\ UNCHANGED <<ncycles, idb, req, activated, waitUntil>>

    /\ UNCHANGED others
\* lines 139-146: idbPut of the sentinel answers, the handle is closed,
\* refreshCache resolves and .finally clears the marker
RefreshSentinel(c) ==
    /\ cyc[c].pc = "sentinel"
    /\ \/ /\ Succeeds
          /\ idb' = [idb EXCEPT ![IDB_KEY_OFFLINE_INDEX] = cyc[c].assetIndex]
          /\ cyc' = [cyc EXCEPT ![c] = Settled("done", FALSE)]
       \/ /\ Fails
          /\ cyc' = [cyc EXCEPT ![c] = Settled("failed", TRUE)]
          /\ UNCHANGED idb
    /\ refreshCachePromise' = NULL
    /\ UNCHANGED <<ncycles, cache, req, activated, waitUntil>>

    /\ UNCHANGED others
\* ---------------------------------------------------- Request Interceptor

\* the fetch listener without lines 22-25
RequestNoBypass(r, path) ==
    IF path \in EntryPoints
    THEN [IdleRequest EXCEPT !.pc = "open", !.path = path]
    ELSE [IdleRequest EXCEPT !.pc = "match", !.path = path]

\* lines 22-25 of the fetch listener: with a refresh outstanding, fetch
RequestBypass(r, path) ==
    IF refreshCachePromise # NULL
    THEN [IdleRequest EXCEPT !.pc = "bypass"]
    ELSE IF path \in EntryPoints
    THEN [IdleRequest EXCEPT !.pc = "open", !.path = path]
    ELSE [IdleRequest EXCEPT !.pc = "match", !.path = path]

\* A fetch event for `path` is dispatched and its handler runs to its first
\* await: the bypass (line 24), initOfflineAssetIndex (line 30) for an entry
\* point, caches.match (line 48) otherwise.
RequestBegin(r, path) ==
    /\ req[r].pc = "idle"
    /\ \A q \in Requests : q < r => req[q].pc # "idle"
    /\ req' = [req EXCEPT ![r] = RequestBypass(r, path)]
    /\ UNCHANGED <<refreshCachePromise, ncycles, cyc, idb, cache, activated, waitUntil, faults>>

    /\ UNCHANGED others
\* line 30: initOfflineAssetIndex answers; on success idbGet of the sentinel
\* is requested, on error the catch logs it and line 48 is reached
RequestOpen(r) ==
    /\ req[r].pc = "open"
    /\ \/ /\ Succeeds
          /\ req' = [req EXCEPT ![r].pc = "sentinel", ![r].db = "open"]
       \/ /\ Fails
          /\ req' = [req EXCEPT ![r].pc = "match", ![r].error = TRUE]
    /\ UNCHANGED <<refreshCachePromise, ncycles, cyc, idb, cache, activated, waitUntil>>

    /\ UNCHANGED others
\* line 31: idbGet of the sentinel answers; on error the catch logs it,
\* cachedIndex stays undefined and, the handle being open, line 36 is reached
RequestSentinel(r) ==
    /\ req[r].pc = "sentinel"
    /\ \/ /\ Succeeds
          /\ req' = [req EXCEPT ![r].pc = "manifest", ![r].cachedIndex = idb[IDB_KEY_OFFLINE_INDEX]]
       \/ /\ Fails
          /\ req' = [req EXCEPT ![r].pc = "manifest", ![r].cachedIndex = NULL, ![r].error = TRUE]
    /\ UNCHANGED <<refreshCachePromise, ncycles, cyc, idb, cache, activated, waitUntil>>

    /\ UNCHANGED others
\* line 37 with a test that wants a stored sentinel to compare with
NeedsRefreshOfStored(assetIndex, cachedIndex) ==
    assetIndex # NULL /\ cachedIndex # NULL /\ assetIndex # cachedIndex

\* line 37: the manifest calls for a refresh
NeedsRefresh(assetIndex, cachedIndex) ==
    assetIndex # NULL /\ assetIndex # cachedIndex

\* lines 36-45: fetchAssetIndex answers.  A manifest whose hash differs from
\* the sentinel's starts (or joins) a refresh, which is not awaited, and the
\* request is fetched; otherwise the handle is closed and line 48 is reached.
RequestManifest(r) ==
    /\ req[r].pc = "manifest"
    /\ \E m \in FetchAssetIndexResults :
         IF NeedsRefresh(m, req[r].cachedIndex)
         THEN /\ synchronizedRefreshCache(m, TRUE)
              /\ req' = [req EXCEPT ![r] = [IdleRequest EXCEPT
                                    !.pc = "fresh",
                                    !.joined = refreshCachePromise',
                                    !.db = IF refreshCachePromise = NULL THEN "none" ELSE "dropped"]]
         ELSE /\ req' = [req EXCEPT ![r].pc = "match", ![r].db = "none",
                                           ![r].cachedIndex = NULL, ![r].assetIndex = m]
              /\ UNCHANGED <<refreshCachePromise, ncycles, cyc>>
    /\ UNCHANGED <<idb, cache, activated, waitUntil, faults>>

    /\ UNCHANGED others
\* line 48 with a handler that keeps the response it fetched in the cache
RequestMatchCaching(r) ==
    /\ req[r].pc = "match"
    /\ req' = [req EXCEPT ![r] = [IdleRequest EXCEPT
                          !.pc = IF req[r].path \in cache THEN "cache" ELSE "fallback"]]
    /\ cache' = cache \cup {req[r].path}
    /\ UNCHANGED <<refreshCachePromise, ncycles, cyc, idb, activated, waitUntil, faults>>

    /\ UNCHANGED others
\* line 48: caches.match answers: the cached body if there is one, else fetch
RequestMatch(r) ==
    /\ req[r].pc = "match"
    /\ req' = [req EXCEPT ![r] = [IdleRequest EXCEPT
                          !.pc = IF req[r].path \in cache THEN "cache" ELSE "fallback"]]
    /\ UNCHANGED <<refreshCachePromise, ncycles, cyc, idb, cache, activated, waitUntil, faults>>

    /\ UNCHANGED others
\* the answers that come from the network
FromNetwork == {"bypass", "fresh", "fallback"}

\* ----------------------------------------------------------- the system
\* what a worker does once activated: it handles fetch events and runs the
\* refresh cycles they start
NextServing ==
    \/ \E c \in Cycles : RefreshInputs(c)
    \/ \E c \in Cycles : RefreshKeys(c)
    \/ \E c \in Cycles, k \in Keys : PruneMatch(c, k)
    \/ \E c \in Cycles, k \in Keys : PruneDelete(c, k)
    \/ \E c \in Cycles, k \in Keys : UpdateGet(c, k)
    \/ \E c \in Cycles, k \in Keys : UpdateAdd(c, k)
    \/ \E c \in Cycles, k \in Keys : UpdatePut(c, k)
    \/ \E c \in Cycles, k \in Keys : ObsoleteDelete(c, k)
    \/ \E c \in Cycles : RefreshCacheKeys(c)
    \/ \E c \in Cycles, k \in Keys : EvictDelete(c, k)
    \/ \E c \in Cycles : RefreshSentinel(c)
    \/ \E r \in Requests, path \in RequestPaths : RequestBegin(r, path)
    \/ \E r \in Requests : RequestOpen(r)
    \/ \E r \in Requests : RequestSentinel(r)
    \/ \E r \in Requests : RequestManifest(r)
    \/ \E r \in Requests : RequestMatch(r)

Next == Activate \/ NextServing

\* A worker from its installation on, the activate event included.  The
\* activate event is not ordered against the fetch events: the platform
\* holds fetch events back while the activate event's promise is pending,
\* but not for ever.
Spec == Init /\ [][Next]_vars

\* A worker that the platform has stopped and started again: its globals are
\* those of a fresh script evaluation, the stores are what earlier runs left,
\* and no activate event is dispatched to it.
InitServing ==
    /\ refreshCachePromise = NULL
    /\ ncycles = 0
    /\ cyc = [c \in Cycles |-> IdleCycle]
    /\ \E s \in InitStores : idb = s[1] /\ cache = s[2]
    /\ req = [r \in Requests |-> IdleRequest]
    /\ activated = TRUE
    /\ waitUntil = NULL
    /\ faults = 0
    /\ parse = NoParse
    /\ mgr = NoManager

SpecServing == InitServing /\ [][NextServing]_vars

\* ------------------------------------------------------ the manifest parser
\* Strings are sequences of characters.  The characters that matter to the
\* parser: the backslash, the newline, the space, and ordinary ones.
BS == "backslash"
NL == "newline"
SP == "space"
\* the longest path of a parsed line
MaxPathLen == 3
\* the characters of paths: ordinary ones (the "n" of the escape among them,
\* and those of the prefix "./"), backslashes and newlines
PathChars == {".", "/", "n", BS, NL}
PathStrings == UNION {[1..n -> PathChars] : n \in 1..MaxPathLen}
\* the digests of the lines (no spaces in them)
Digests == {<<"h">>, <<"h", "h">>}

\* String.prototype.startsWith
StartsWith(s, pat) == Len(s) >= Len(pat) /\ SubSeq(s, 1, Len(pat)) = pat

\* String.prototype.indexOf: the 0-based index of the first occurrence, or -1
IndexOf(s, pat) ==
    LET at == {i \in 0..(Len(s) - Len(pat)) : SubSeq(s, i + 1, i + Len(pat)) = pat}
    IN IF at = {} THEN -1 ELSE CHOOSE i \in at : \A j \in at : i <= j

\* String.prototype.slice(from, to), 0-based; a negative index counts from
\* the end
Slice(s, from, to) ==
    LET abs(i) == IF i < 0 THEN (IF Len(s) + i < 0 THEN 0 ELSE Len(s) + i)
                  ELSE (IF i > Len(s) THEN Len(s) ELSE i)
    IN SubSeq(s, abs(from) + 1, abs(to))

\* String.prototype.replaceAll with a string pattern: the occurrences are
\* found from left to right, each search starting after the last match
RECURSIVE ReplaceAll(_, _, _)
ReplaceAll(s, pat, by) ==
    IF Len(s) < Len(pat) THEN s
    ELSE IF StartsWith(s, pat)
    THEN by \o ReplaceAll(SubSeq(s, Len(pat) + 1, Len(s)), pat, by)
    ELSE <<Head(s)>> \o ReplaceAll(Tail(s), pat, by)

\* parseAssetIndexEntry (lines 297-309)
parseAssetIndexEntry(line) ==
    LET delimiterIndex == IndexOf(line, <<SP, SP>>)
        hash0 == Slice(line, 0, delimiterIndex)
        path0 == Slice(line, delimiterIndex + 2, Len(line))
        escaped == Len(line) > 0 /\ line[1] = BS
        hash == IF escaped THEN Slice(hash0, 1, Len(hash0)) ELSE hash0
        path1 == IF escaped
                 THEN ReplaceAll(ReplaceAll(path0, <<BS, "n">>, <<NL>>), <<BS, BS>>, <<BS>>)
                 ELSE path0
        path == IF StartsWith(path1, <<".", "/">>) THEN path1 ELSE <<".", "/">> \o path1
    IN [hash |-> hash, path |-> path]

\* The escaped form of a path in a manifest line: each backslash written as
\* two backslashes, each newline as a backslash followed by n.
RECURSIVE Escape(_)
Escape(path) ==
    IF path = <<>> THEN <<>>
    ELSE (CASE Head(path) = BS -> <<BS, BS>>
            [] Head(path) = NL -> <<BS, "n">>
            [] OTHER -> <<Head(path)>>) \o Escape(Tail(path))

\* the escaped manifest line of a digest and a path: a leading backslash,
\* the digest, two spaces, the escaped path
EscapedLine(digest, path) == <<BS>> \o digest \o <<SP, SP>> \o Escape(path)

\* fetchAssetIndex maps parseAssetIndexEntry over the lines of the manifest
\* (line 273): one line is taken ...
InitParser ==
    /\ \E d \in Digests, p \in PathStrings :
         parse = [NoParse EXCEPT !.stage = "line", !.digest = d, !.path = p,
                                 !.line = EscapedLine(d, p)]
    /\ refreshCachePromise = NULL
    /\ ncycles = 0
    /\ cyc = [c \in Cycles |-> IdleCycle]
    /\ idb = EmptyIdb /\ cache = EmptyCache
    /\ req = [r \in Requests |-> IdleRequest]
    /\ activated = TRUE
    /\ waitUntil = NULL
    /\ faults = 0
    /\ mgr = NoManager

\* ... and parsed
ParseLine ==
    /\ parse.stage = "line"
    /\ parse' = [parse EXCEPT !.stage = "parsed", !.entry = parseAssetIndexEntry(parse.line)]
    /\ UNCHANGED <<worker, mgr>>

NextParser == ParseLine

SpecParser == InitParser /\ [][NextParser]_vars

\* ------------------------------------------ the page's service worker manager

\* bounds: transitions of the setting, register calls in flight at a time
MaxToggles == 4
MaxPending == 2

\* mgr.offlineMode   settings.offlineMode
\* mgr.registration  the variable registration is not null (line 10)
\* mgr.pending       register calls whose promise has not settled
\* mgr.registered    the platform holds a registration of the worker that
\*                   has not been asked to unregister
\* mgr.stores        the worker has been registered at some time, so that
\*                   its Blob Cache and index database may exist
\* mgr.cacheDelete, mgr.dbDelete
\*                   the deletion of each store since the worker was last
\*                   registered: not requested, requested, or answered
\* mgr.toggles       the transitions of the setting so far
DeleteAnswers == {"done", "failed"}

\* registration.unregister().catch(console.error) (lines 14, 28)
unregister(m) == [m EXCEPT !.registered = FALSE]

\* cleanupCachedData (lines 44-62): caches.has returns a promise, which is
\* truthy, so caches.delete is always called; deleteDatabase is called in
\* the same turn, before either deletion is answered
cleanupCachedData(m) == [m EXCEPT !.cacheDelete = "requested", !.dbDelete = "requested"]

\* After initServiceWorkerManager has run: onInit has called onChange with
\* the stored setting (line 40). With the setting off nothing is done; with
\* it on, register has been called, and an earlier visit may have left the
\* worker registered and the stores filled.
InitManager ==
    /\ \/ mgr = NoManager
       \/ \E was \in BOOLEAN :
            mgr = [NoManager EXCEPT !.offlineMode = TRUE, !.pending = 1,
                                    !.registered = was, !.stores = was]
    /\ refreshCachePromise = NULL
    /\ ncycles = 0
    /\ cyc = [c \in Cycles |-> IdleCycle]
    /\ idb = EmptyIdb /\ cache = EmptyCache
    /\ req = [r \in Requests |-> IdleRequest]
    /\ activated = TRUE
    /\ waitUntil = NULL
    /\ faults = 0
    /\ parse = NoParse

\* onChange with the setting turned on (lines 21-25): register is called
OnChangeEnable ==
    /\ ~mgr.offlineMode
    /\ mgr.toggles < MaxToggles
    /\ mgr.pending < MaxPending
    /\ mgr' = [mgr EXCEPT !.offlineMode = TRUE, !.pending = @ + 1, !.toggles = @ + 1]
    /\ UNCHANGED <<worker, parse>>

\* onChange with the setting turned off (lines 12-19)
OnChangeDisable ==
    /\ mgr.offlineMode
    /\ mgr.toggles < MaxToggles
    /\ LET m == [mgr EXCEPT !.offlineMode = FALSE, !.toggles = @ + 1]
       IN  mgr' = IF m.registration
                  THEN [cleanupCachedData(unregister(m)) EXCEPT !.registration = FALSE]
                  ELSE m
    /\ UNCHANGED <<worker, parse>>

\* the then-callback of register without the test of line 27
RegisterResolvesKeeping ==
    /\ mgr.pending > 0
    /\ mgr' = [mgr EXCEPT !.pending = @ - 1, !.registered = TRUE, !.stores = TRUE,
                          !.cacheDelete = "none", !.dbDelete = "none",
                          !.registration = TRUE]
    /\ UNCHANGED <<worker, parse>>

\* a register call resolves: the worker is registered and may fill its
\* stores anew; the then-callback runs (lines 26-33)
RegisterResolves ==
    /\ mgr.pending > 0
    /\ LET m == [mgr EXCEPT !.pending = @ - 1, !.registered = TRUE, !.stores = TRUE,
                            !.cacheDelete = "none", !.dbDelete = "none"]
       IN  mgr' = IF ~m.offlineMode
                  THEN cleanupCachedData(unregister(m))
                  ELSE [m EXCEPT !.registration = TRUE]
    /\ UNCHANGED <<worker, parse>>

\* a register call rejects (line 34): the script could not be fetched or
\* installed. A call for a worker that is registered already with the same
\* script resolves with that registration without fetching anything.
RegisterRejects ==
    /\ mgr.pending > 0
    /\ ~mgr.registered
    /\ mgr' = [mgr EXCEPT !.pending = @ - 1]
    /\ UNCHANGED <<worker, parse>>

\* caches.delete settles; a rejection is logged (line 52)
CacheDeleteAnswers ==
    /\ mgr.cacheDelete = "requested"
    /\ \E a \in DeleteAnswers : mgr' = [mgr EXCEPT !.cacheDelete = a]
    /\ UNCHANGED <<worker, parse>>

\* the deleteDatabase request succeeds, fails (lines 56-58) or is blocked
\* by an open connection (lines 59-61)
DbDeleteAnswers ==
    /\ mgr.dbDelete = "requested"
    /\ \E a \in DeleteAnswers \cup {"blocked"} : mgr' = [mgr EXCEPT !.dbDelete = a]
    /\ UNCHANGED <<worker, parse>>

NextManager ==
    \/ OnChangeEnable
    \/ OnChangeDisable
    \/ RegisterResolves
    \/ RegisterRejects
    \/ CacheDeleteAnswers
    \/ DbDeleteAnswers

SpecManager == InitManager /\ [][NextManager]_vars

\* --------------------------------------------------------------- claims

\* the refreshCache calls that have started and not settled
ExecutingCycles == {c \in Cycles : cyc[c].pc \in Unsettled}

\* a step in which the activate listener calls synchronizedRefreshCache
ActivateTriggers == ~activated /\ activated'
\* a step in which the handler of request r calls synchronizedRefreshCache
RequestTriggers(r) == req[r].pc = "manifest" /\ req'[r].pc = "fresh"

\* C1: refresh is single-flight.  At most one refreshCache call is unsettled
\* at a time, and it is the one refreshCachePromise holds; a trigger (the
\* activate event, an entry-point request) that arrives while a call is
\* outstanding starts no call and changes none, and the promise it gets is
\* the outstanding call's, so that it sees that call's completion or failure.
C1_SingleFlight ==
    /\ [](/\ Cardinality(ExecutingCycles) <= 1
          /\ \A c \in ExecutingCycles : refreshCachePromise = c)
    /\ [][/\ (ActivateTriggers /\ refreshCachePromise # NULL)
               => /\ ncycles' = ncycles /\ cyc' = cyc
                  /\ refreshCachePromise' = refreshCachePromise
                  /\ waitUntil' = refreshCachePromise
          /\ \A r \in Requests :
               (RequestTriggers(r) /\ refreshCachePromise # NULL)
               => /\ ncycles' = ncycles /\ cyc' = cyc
                  /\ refreshCachePromise' = refreshCachePromise
                  /\ req'[r].joined = refreshCachePromise]_vars

\* C1's case: a request's trigger was coalesced into a cycle that another
\* trigger started and that is still executing
C1_Witness ==
    \E r \in Requests :
        /\ req[r].pc = "fresh" /\ req[r].db = "dropped"
        /\ req[r].joined \in ExecutingCycles

\* C2: a request whose handling begins while a refresh is in flight is
\* forwarded to the network (the fetch of line 24) whatever its path, and an
\* answer from the network is never replaced by one from the cache.
C2_BypassDuringRefresh ==
    [][\A r \in Requests :
          /\ (req[r].pc = "idle" /\ req'[r].pc # "idle" /\ refreshCachePromise # NULL)
               => req'[r].pc = "bypass"
          /\ req[r].pc \in FromNetwork => req'[r].pc = req[r].pc]_vars

\* C2's case: a request was bypassed while the cache holds its resource
C2_Witness ==
    \E r \in Requests :
        req[r].pc = "bypass" /\ refreshCachePromise # NULL /\ INDEX_HTML \in cache /\ ASSET \in cache

\* C3: no request is answered from the Blob Cache at a moment when a refresh
\* cycle is in flight, whenever its handling began.
C3_NoCacheAnswerDuringRefresh ==
    [][\A r \in Requests :
          (req[r].pc # "cache" /\ req'[r].pc = "cache") => refreshCachePromise = NULL]_vars

\* cycle c completes in this step: its sentinel write succeeds and
\* refreshCache resolves
Completes(c) == cyc[c].pc = "sentinel" /\ cyc'[c].pc = "done"

\* the stores, at the start of a cycle, were converged for some manifest
StartedConverged(cr) ==
    \E m \in ManifestIds : cr.idb0 = ConvergedIdb(m) /\ cr.cache0 = ConvergedCache(m)

\* C4: a cycle that completes against manifest M, having started from an
\* empty cache or from a state converged for some manifest, leaves the cache
\* with exactly the paths of M, the index with exactly M's entries and
\* digests (no record of a removed path), and the sentinel with M's digest.
C4_Convergence ==
    [][\A c \in Cycles :
          (Completes(c) /\ (cyc[c].cache0 = EmptyCache \/ StartedConverged(cyc[c])))
          => /\ cache' = ConvergedCache(cyc[c].assetIndex)
             /\ idb' = ConvergedIdb(cyc[c].assetIndex)]_vars

\* cycle c runs against the manifest that the cycle before it completed
\* against: that cycle resolved, and the sentinel it wrote was in the index
\* when c started
RepeatsPrevious(c) ==
    /\ c > 1
    /\ cyc[c - 1].pc = "done"
    /\ cyc[c].idb0[IDB_KEY_OFFLINE_INDEX] = cyc[c].assetIndex

\* C5: a second cycle with the same manifest, directly after a completed
\* one, calls cache.add for no entry and leaves the index and the cache as
\* they were when it started.
C5_Idempotence ==
    [][\A c \in Cycles :
          (Completes(c) /\ RepeatsPrevious(c))
          => /\ cyc[c].fetched = {}
             /\ idb' = cyc[c].idb0
             /\ cache' = cyc[c].cache0]_vars

\* the entries of cycle cr's manifest whose digest differs from the digest
\* the index recorded for the path at the start of the cycle (none included)
Differing(cr) ==
    {p \in KnownPaths(cr.assetIndex) : cr.idb0[p] # EntryHash(cr.assetIndex, p)}

\* some task's cache.add for path p succeeds in this step
BodyReplaced(p) ==
    faults' = faults /\ \E c \in Cycles : cyc[c].task[p] = "add" /\ cyc'[c] # cyc[c]

\* C6: in a cycle that started from a converged state, cache.add is called
\* only for the entries whose digest differs from the recorded one, for
\* every one of them by the time the cycle completes, and while the cycle
\* runs the body and the record of every other entry are left as they are.
C6_UpdateDetection ==
    [][\A c \in Cycles :
          (cyc[c].pc \in Unsettled /\ cyc[c].assetIndex # NULL /\ StartedConverged(cyc[c]))
          => /\ cyc'[c].pc \in Unsettled => cyc'[c].fetched \subseteq Differing(cyc[c])
             /\ Completes(c) => cyc[c].fetched = Differing(cyc[c])
             /\ \A p \in KnownPaths(cyc[c].assetIndex) \ Differing(cyc[c]) :
                  /\ idb'[p] = idb[p]
                  /\ (p \in cache') = (p \in cache)
                  /\ ~BodyReplaced(p)]_vars

\* C7: a cycle deletes the records whose path has no body, a failure of
\* such a deletion does not fail it, and when it completes every record of
\* the index other than the sentinel has a body in the cache.
C7_SelfHealing ==
    [][\A c \in Cycles :
          Completes(c) => \A p \in Paths : idb'[p] # NULL => p \in cache']_vars

\* C4's case does happen: a cycle that started from a state converged for
\* one manifest is about to complete against another
C4_Witness ==
    \E c \in Cycles :
        /\ cyc[c].pc = "sentinel" /\ StartedConverged(cyc[c])
        /\ cyc[c].idb0[IDB_KEY_OFFLINE_INDEX] # cyc[c].assetIndex

\* cycle c returns at line 73 in this step
Aborts(c) == cyc[c].pc = "inputs" /\ cyc'[c].pc = "aborted"

\* a trigger of this step finds no cycle outstanding and starts one
StartsCycle ==
    /\ ncycles' = ncycles + 1
    /\ refreshCachePromise' = ncycles'
    /\ cyc'[ncycles'].pc = "inputs"

\* C8: a cycle that obtains no manifest returns before it touches a store:
\* no cycle is past its inputs without a manifest, the step in which a cycle
\* aborts leaves the index and the cache as they are and clears the
\* in-flight marker, and a trigger that finds the marker clear (as the abort
\* leaves it) starts a new cycle.
C8_NoManifestAbort ==
    /\ [](\A c \in Cycles :
            cyc[c].pc \in (Unsettled \ {"inputs"}) => cyc[c].assetIndex # NULL)
    /\ [][/\ \A c \in Cycles :
               Aborts(c) => idb' = idb /\ cache' = cache /\ refreshCachePromise' = NULL
          /\ (ActivateTriggers /\ refreshCachePromise = NULL) => StartsCycle
          /\ \A r \in Requests :
               (RequestTriggers(r) /\ refreshCachePromise = NULL) => StartsCycle]_vars

\* C8's case: the first cycle aborted, the stores still hold what they held,
\* and a later trigger has started the second cycle
C8_Witness ==
    /\ cyc[1].pc = "aborted"
    /\ cyc[2].pc \in Unsettled /\ refreshCachePromise = 2
    /\ idb = ConvergedIdb(1) /\ cache = ConvergedCache(1)

\* the handler of request r gets fetchAssetIndex's answer (line 36) in this step
ManifestArrives(r) == req[r].pc = "manifest" /\ req'[r].pc # "manifest"

\* What C9 says of request r apart from the start of the refresh: a manifest
\* whose digest differs from the sentinel digest the request read never
\* leads to line 48 (so it leads to the trigger of line 39); the request is
\* answered in the step of the trigger, with the refresh still unsettled
\* (it is not awaited); the answer is the fetch of line 42 and stays so.
C9_AnsweredFromNetwork(r) ==
    /\ (ManifestArrives(r) /\ req'[r].pc = "match")
         => req'[r].assetIndex \in {NULL, req[r].cachedIndex}
    /\ ManifestArrives(r) => req'[r].pc \in {"match", "fresh"}
    /\ RequestTriggers(r)
         => /\ refreshCachePromise' # NULL
            /\ cyc'[refreshCachePromise'].pc \in Unsettled
            /\ req'[r].joined = refreshCachePromise'
    /\ req[r].pc = "fresh" => req'[r].pc = "fresh"

\* C9 as stated: an entry-point request that passed the in-flight test and
\* whose manifest differs from the sentinel starts a refresh, does not await
\* it, and is answered from the network.
C9_StartsRefresh ==
    [][\A r \in Requests :
          /\ C9_AnsweredFromNetwork(r)
          /\ RequestTriggers(r) => StartsCycle]_vars

\* C9, amended: such a request starts a refresh against the manifest it
\* fetched, unless another trigger has started a cycle since the request
\* passed the in-flight test and that cycle is still outstanding: then the
\* trigger is coalesced into that cycle and starts none.  Either way the
\* request does not await the refresh and is answered from the network.
C9_StartsOrJoinsRefresh ==
    [][\A r \in Requests :
          /\ C9_AnsweredFromNetwork(r)
          /\ RequestTriggers(r)
               => IF refreshCachePromise = NULL
                  THEN /\ StartsCycle
                       /\ cyc'[ncycles'].assetIndex \notin {NULL, req[r].cachedIndex}
                  ELSE /\ ncycles' = ncycles /\ cyc' = cyc
                       /\ refreshCachePromise' = refreshCachePromise]_vars

\* C9's case: a request read a sentinel, found the manifest to differ from
\* it, started the cycle that is still at its first await, and is answered
C9_Witness ==
    \E r \in Requests :
        /\ req[r].pc = "fresh" /\ req[r].db = "none"
        /\ cyc[req[r].joined].pc = "inputs"
        /\ cyc[req[r].joined].idb0[IDB_KEY_OFFLINE_INDEX] \notin {NULL, cyc[req[r].joined].assetIndex}

\* C10: once the entry-point check of a request has failed to open the index
\* or to read the sentinel (the catch block ran), that request starts no
\* refresh and joins none, and it is answered by line 48: from the cache if
\* the cache holds the resource, else from the network; and no refresh that
\* a request starts is without a manifest (a failed manifest fetch starts
\* none).
C10_CheckFailureIsNoUpdate ==
    [][\A r \in Requests :
          /\ req[r].error
               => /\ ~RequestTriggers(r)
                  /\ req'[r].pc \in {req[r].pc, "match", "cache", "fallback"}
                  /\ req'[r].pc = "cache" => req[r].path \in cache
                  /\ req'[r].pc = "fallback" => req[r].path \notin cache
          /\ (RequestTriggers(r) /\ refreshCachePromise = NULL)
               => cyc'[refreshCachePromise'].assetIndex # NULL]_vars

\* getAllKeys of cycle c answers with an error in this step (line 86)
KeysReadFails(c) == cyc[c].pc = "keys" /\ cyc'[c] # cyc[c] /\ faults' # faults

\* C11: when getAllKeys fails, the store is cleared and the cycle goes on
\* with no previously known entries: it is at its update step (or beyond)
\* with an empty index, so that every manifest entry is fetched again.
C11_KeysFailureClearsIndex ==
    [][\A c \in Cycles :
          KeysReadFails(c)
          => /\ idb' = EmptyIdb
             /\ cyc'[c].known = {}
             /\ cyc'[c].pc \in {"update", "cachekeys"}]_vars

\* cache.add or idbPut of the task of cycle c for entry k ends in an error in
\* this step (lines 160, 162)
WriteFails(c, k) ==
    /\ cyc[c].task[k] \in {"add", "put"}
    /\ cyc'[c].task[k] \notin {"add", "put"}
    /\ faults' # faults

\* ... and the cycle is at its update step when it does (lines 112-116)
EntryFails(c, k) == cyc[c].pc = "update" /\ WriteFails(c, k)

\* C12: a failure to fetch or to record one entry is confined to it: the
\* entry's record is left as it was, the tasks of the other entries go on,
\* and the cycle is not ended by it (it goes on to its later steps).
C12_EntryFailureConfined ==
    [][\A c \in Cycles, k \in Keys :
          EntryFails(c, k)
          => /\ idb'[k] = idb[k]
             /\ \A j \in Keys \ {k} : cyc'[c].task[j] = cyc[c].task[j]
             /\ cyc'[c].pc \in Unsettled
             /\ refreshCachePromise' = refreshCachePromise]_vars

\* idbGet of the task of cycle c for entry k answers in this step (line 155)
RecordRead(c, k) ==
    cyc[c].task[k] = "get" /\ cyc'[c].task[k] # "get" /\ faults' = faults

\* C13: an entry whose cache.add or idbPut failed stays stale and is fetched
\* again.  When the write fails, the index's digest for the path differs
\* from the manifest's or is missing; the record of a path gets a digest
\* only from the idbPut of a task that has fetched the path; and a cycle
\* whose idbGet finds a digest other than its manifest's (or none) fetches
\* the entry.
C13_FailedEntryRefetched ==
    [][\A c \in Cycles, k \in Paths :
          /\ WriteFails(c, k) => idb'[k] # EntryHash(cyc[c].assetIndex, k)
          /\ (idb'[k] # idb[k] /\ idb'[k] # NULL)
               => \E d \in Cycles :
                    cyc[d].task[k] = "put" /\ idb'[k] = EntryHash(cyc[d].assetIndex, k)
          /\ (RecordRead(c, k) /\ idb[k] # EntryHash(cyc[c].assetIndex, k))
               => /\ cyc'[c].task[k] = "add"
                  /\ k \in cyc'[c].fetched]_vars

\* the per-key tasks of cycle c that have an operation outstanding
PendingTasks(c) == {k \in Keys : cyc[c].task[k] \notin {"-", "ok", "err"}}

\* C16: the writes of at most one cycle are in flight: a task with an
\* operation outstanding belongs to the cycle that refreshCachePromise
\* holds (no task outlives the settling of its cycle), and no key has tasks
\* of two cycles outstanding.
C16_OneCycleWrites ==
    /\ \A c \in Cycles : PendingTasks(c) # {} => refreshCachePromise = c
    /\ \A c, d \in Cycles : c # d => PendingTasks(c) \cap PendingTasks(d) = {}

\* the answer of an operation that cycle c awaits arrives
CycleStep(c) ==
    \/ RefreshInputs(c)
    \/ RefreshKeys(c)
    \/ \E k \in Keys : PruneMatch(c, k)
    \/ \E k \in Keys : PruneDelete(c, k)
    \/ \E k \in Keys : UpdateGet(c, k)
    \/ \E k \in Keys : UpdateAdd(c, k)
    \/ \E k \in Keys : UpdatePut(c, k)
    \/ \E k \in Keys : ObsoleteDelete(c, k)
    \/ RefreshCacheKeys(c)
    \/ \E k \in Keys : EvictDelete(c, k)
    \/ RefreshSentinel(c)

\* C17: every cycle that has started settles once its operations have
\* answered.  As a property of states: a cycle that has not settled awaits
\* an operation whose answer lets it go on (it is never left waiting for
\* nothing), and the marker holds unsettled cycles only.
C17_CycleSettles ==
    \A c \in Cycles :
        /\ cyc[c].pc \in Unsettled => ENABLED CycleStep(c)
        /\ refreshCachePromise = c => cyc[c].pc \in Unsettled

\* C18: an operation that has finished holds no index handle: a settled
\* cycle has closed the handle it opened or was given, an answered request
\* has closed its handle or passed it to the cycle it started, and a request
\* on its way to line 48 has none.
C18_HandlesReleased ==
    /\ \A c \in Cycles : cyc[c].pc \in {"done", "aborted", "failed"} => ~cyc[c].db
    /\ \A r \in Requests :
         req[r].pc \in {"match", "bypass", "fresh", "cache", "fallback"} => req[r].db = "none"

\* C19: handling a request changes neither store (a step of a fetch handler
\* leaves the index and the cache as they are, whatever it answers with),
\* and every change of either store is a step of a refresh cycle.
C19_RequestsDoNotWrite ==
    [][/\ req' # req => (idb' = idb /\ cache' = cache)
       /\ (idb' # idb \/ cache' # cache)
            => \E c \in Cycles : PendingTasks(c) # {} \/ cyc[c].pc = "sentinel"]_vars

\* C19's case: requests were answered from the network, one of them having
\* started a refresh, and the cache holds no body yet
C19_Witness ==
    /\ cache = EmptyCache
    /\ \E r, q \in Requests : req[r].pc = "fallback" /\ req[q].pc = "fresh"

\* C20: the sentinel record changes only in the step of the final sentinel
\* write (lines 139-143) of a cycle; the passes over the known keys never
\* delete it, so a cycle that fails leaves it as it was.
C20_SentinelOnlyByFinalWrite ==
    [][idb'[IDB_KEY_OFFLINE_INDEX] # idb[IDB_KEY_OFFLINE_INDEX]
          => \E c \in Cycles : Completes(c)]_vars

\* the path the parser is to return: the path with the prefix "./"
ScopeRelative(path) ==
    IF StartsWith(path, <<".", "/">>) THEN path ELSE <<".", "/">> \o path

\* C15: parsing the escaped line of a digest and a path (of ordinary
\* characters, backslashes and newlines) returns the digest without the
\* leading backslash and the path itself, with the scope-relative prefix.
C15_ParserRoundTrip ==
    parse.stage = "parsed"
    => /\ parse.entry.hash = parse.digest
       /\ parse.entry.path = ScopeRelative(parse.path)

\* the setting is off and no register call is in flight
SettledDisabled == ~mgr.offlineMode /\ mgr.pending = 0

\* deletion of both stores has been requested, whatever the answers
DeletionRequested == mgr.cacheDelete # "none" /\ mgr.dbDelete # "none"

\* C14 as stated: after any transitions of the setting and completions of
\* register calls, once the setting is off and no register call is pending,
\* the worker is unregistered and the deletion of both stores has been
\* requested.
C14_DisabledMeansCleaned ==
    (SettledDisabled /\ mgr.toggles > 0) => (~mgr.registered /\ DeletionRequested)

\* C14, amended: once the setting is off and no register call is pending,
\* the worker is unregistered, and if it has been registered at some time
\* (so that the stores may exist), the deletion of both stores has been
\* requested since it was last registered; a deletion that failed or is
\* blocked counts as requested and leaves the rest in place.
C14_DisabledMeansCleanedIfRegistered ==
    SettledDisabled => (~mgr.registered /\ (mgr.stores => DeletionRequested))

\* the setting was turned off while a register call was in flight, the call
\* resolved, and the cache deletion failed
C14_Witness ==
    /\ SettledDisabled
    /\ mgr.stores
    /\ ~mgr.registration
    /\ mgr.toggles > 0
    /\ mgr.cacheDelete = "failed"
    /\ mgr.dbDelete \in {"requested", "done", "blocked"}

====
